---- MODULE Spec2Model ----
(***************************************************************************)
(* State-machine model of the test environment MTEnv (src/mtest.hpp) of    *)
(* imdanielsp/GradingEnv, for a process with several environments, and of  *)
(* the grading environment GradingEnv (src/grading.hpp).  Both headers     *)
(* define struct Record, so a program includes one of them: each           *)
(* specification below runs one of the two classes and leaves the          *)
(* variables of the other at their initial values.                         *)
(*                                                                         *)
(* A test function is user code: it is modelled as an arbitrary sequence   *)
(* of assertion-helper calls on the environment it was handed, ended by a  *)
(* normal return or by an exception escaping it.  run_all is therefore     *)
(* split at the points where it hands control to a test function.  Tests   *)
(* are registered and run_all is called by the embedding program, between  *)
(* run_all calls; helpers are called from inside a running test function.  *)
(*                                                                         *)
(* Text is a sequence of one-character strings; "ESC" is the character     *)
(* U+001B.                                                                 *)
(***************************************************************************)
EXTENDS Integers, Sequences, FiniteSets, TLC

VARIABLES
  idCounter,    \* MTEnv::_idCounter (static, shared by all environments)
  tests,        \* MTEnv::_tests, per environment
  currentTest,  \* MTEnv::_currentTest, per environment: <<>> is nullptr
  records,      \* MTEnv::_records, per environment: key -> list of records
  pc,           \* where the driver is: "idle", "loop" (in for_each), "body"
  run,          \* the run_all call in progress: environment, position, flag
  outcome,      \* how the last run_all call ended
  out,          \* what the current or last run_all call wrote to std::cout
  log           \* history: calls and returns of test functions in that call

vars ==
  <<idCounter, tests, currentTest, records, pc, run, outcome, out, log>>

\* The state of a GradingEnv object (src/grading.hpp).
VARIABLES
  geTests,            \* GradingEnv::_tests
  geCurrentTest,      \* GradingEnv::_currentTest (uint8_t)
  geCurrentTestName,  \* GradingEnv::_currentTestName
  geRecords,          \* GradingEnv::_records: key -> list of records
  gePc,               \* where the driver is: "idle", "loop", "body"
  geRun,              \* the run_all call in progress: position, flag
  geRuns,             \* history: the number of run_all calls made so far
  geOut               \* what the current or last run_all call wrote

geVars ==
  <<geTests, geCurrentTest, geCurrentTestName, geRecords, gePc, geRun, geRuns,
    geOut>>

(***************************************************************************)
(* Bounds.                                                                 *)
(***************************************************************************)
NumEnvs ==
  2

MaxTests ==
  3

MaxRecords ==
  2

\* GradingEnv: tests registered, records filed, run_all calls made
GEMaxTests ==
  2

GEMaxRecords ==
  3

GEMaxRuns ==
  2

Envs ==
  1..NumEnvs

\* Operand pairs (l, r) handed to expect_eq / expect_neq, instantiated at
\* T = int: an equal pair and an unequal one
OperandPairs ==
  {<<7, 7>>, <<7, 42>>}

\* (name, feedback) of the tests that get registered; names may repeat.
FirstInput ==
  << <<"A">>, <<"f", "a">> >>

TestInputs ==
  {FirstInput, << <<"B">>, <<"f", "b">> >>}

(***************************************************************************)
(* Text.                                                                   *)
(***************************************************************************)
DigitChars ==
  <<"0", "1", "2", "3", "4", "5", "6", "7", "8", "9">>

RECURSIVE NatText(_)
NatText(n) ==
  IF n < 10 THEN <<DigitChars[n + 1]>>
  ELSE NatText(n \div 10) \o <<DigitChars[(n % 10) + 1]>>

\* std::ostream << int; |n| is split as 10 * rest + last without negating n,
\* which INT_MIN does not allow
IntText(n) ==
  IF n >= 0 THEN NatText(n)
  ELSE LET a == 0 - (n + 1)
           last == ((a % 10) + 1) % 10
           rest == IF a % 10 = 9 THEN (a \div 10) + 1 ELSE a \div 10
       IN  <<"-">> \o (IF rest = 0 THEN <<>> ELSE NatText(rest)) \o
           <<DigitChars[last + 1]>>

Red ==
  <<"ESC", "[", "3", "1", "m">>

Reset ==
  <<"ESC", "[", "0", "m">>

Endl ==
  <<"\n">>

\* TRUE iff t occurs in s as a contiguous run of characters
Contains(s, t) ==
  \E i \in 0..(Len(s) - Len(t)) :
    \A j \in 1..Len(t) : s[i + j] = t[j]

(***************************************************************************)
(* Records and the assertion helpers.                                      *)
(* A record is [pass, printable, reason]; reason is std::optional: <<>> is *)
(* the empty optional and <<text>> a value.  The field "by" is history: the *)
(* id of the test whose function was executing when the record was made.   *)
(***************************************************************************)
\* MTEnv::expect: c is the value of the comparison c(args...)
expect(c, reason, printable) ==
  IF c = TRUE
  THEN [pass |-> TRUE, printable |-> printable, reason |-> <<>>]
  ELSE [pass |-> FALSE, printable |-> printable,
        reason |-> <<Red \o reason \o Reset \o Endl>>]

\* variant: the reason is built from the left operand twice
expect_eq_record_leftTwice(l, r, printable) ==
  expect(l = r, IntText(l) \o <<" ", "!", "=", " ">> \o IntText(l), printable)

expect_eq_record(l, r, printable) ==
  expect(l = r, IntText(l) \o <<" ", "!", "=", " ">> \o IntText(r), printable)

\* variant: the comparison of expect_eq left in place
expect_neq_record_sameComparison(l, r, printable) ==
  expect(l = r, IntText(l) \o <<" ", "=", "=", " ">> \o IntText(r), printable)

expect_neq_record(l, r, printable) ==
  expect(l # r, IntText(l) \o <<" ", "=", "=", " ">> \o IntText(r), printable)

expect_true_record(val, printable) ==
  expect(val = TRUE,
         <<"v", "a", "l", "u", "e", " ", "i", "s", " ", "f", "a", "l", "s", "e">>,
         printable)

expect_false_record(val, printable) ==
  expect(val = FALSE,
         <<"v", "a", "l", "u", "e", " ", "i", "s", " ", "t", "r", "u", "e">>,
         printable)

\* the test whose function the driver is executing (from the loop position)
Executing ==
  tests[run.env][run.i]

\* number of records stored in all environments
RECURSIVE SumLen(_, _)
SumLen(f, ks) ==
  IF ks = {} THEN 0
  ELSE LET k == CHOOSE x \in ks : TRUE
       IN  Len(f[k]) + SumLen(f, ks \ {k})

RECURSIVE SumRecords(_)
SumRecords(es) ==
  IF es = {} THEN 0
  ELSE LET e == CHOOSE x \in es : TRUE
       IN  SumLen(records[e], DOMAIN records[e]) + SumRecords(es \ {e})

TotalRecords ==
  SumRecords(Envs)

\* variant: the list under the key is replaced by the new record
_insertRecord_replacesList(recs, cur, rec) ==
  LET key == cur[1].id
  IN  (key :> <<rec>>) @@ recs

\* MTEnv::_insertRecord: the map of one environment after inserting rec
\* under the id of *_currentTest
_insertRecord(recs, cur, rec) ==
  LET key == cur[1].id
  IN  IF key \in DOMAIN recs
      THEN [recs EXCEPT ![key] = Append(@, rec)]
      ELSE (key :> <<rec>>) @@ recs

\* variant: a failing assertion throws out of the test function
Helper_throwOnFailure(e, rec) ==
  /\ pc = "body"
  /\ run.env = e
  /\ TotalRecords < MaxRecords
  /\ records' = [records EXCEPT ![e] =
                   _insertRecord(records[e], currentTest[e],
                                 [pass |-> rec.pass, printable |-> rec.printable,
                                  reason |-> rec.reason, by |-> Executing.id])]
  /\ IF rec.pass
     THEN UNCHANGED <<pc, run, outcome, log>>
     ELSE /\ pc' = "idle"
          /\ run' = [env |-> 0, i |-> 0, report |-> FALSE]
          /\ outcome' = "test_threw"
          /\ log' = Append(log, [ev |-> "throw", i |-> run.i])
  /\ UNCHANGED <<idCounter, tests, currentTest, out>>

\* an assertion helper called by the executing test function on its
\* environment: builds rec and files it; returns normally
Helper(e, rec) ==
  /\ pc = "body"
  /\ run.env = e
  /\ TotalRecords < MaxRecords
  /\ records' = [records EXCEPT ![e] =
                   _insertRecord(records[e], currentTest[e],
                                 [pass |-> rec.pass, printable |-> rec.printable,
                                  reason |-> rec.reason, by |-> Executing.id])]
  /\ UNCHANGED <<idCounter, tests, currentTest, pc, run, outcome, out, log>>

expect_eq(e, l, r, printable) ==
  Helper(e, expect_eq_record(l, r, printable))

expect_neq(e, l, r, printable) ==
  Helper(e, expect_neq_record(l, r, printable))

expect_true(e, val, printable) ==
  Helper(e, expect_true_record(val, printable))

expect_false(e, val, printable) ==
  Helper(e, expect_false_record(val, printable))

(***************************************************************************)
(* Registration.                                                           *)
(***************************************************************************)
\* variant: the id is the position in the environment's own list
AddOne_perEnvIndex(st, t) ==
  [list |-> Append(st.list, [id |-> Len(st.list), name |-> t[1], feedback |-> t[2]]),
   counter |-> st.counter + 1]

\* MTEnv::add_test(tuple): the test list and the counter after one add
AddOne(st, t) ==
  [list |-> Append(st.list, [id |-> st.counter, name |-> t[1], feedback |-> t[2]]),
   counter |-> st.counter + 1]

RECURSIVE AddAll(_, _)
AddAll(st, ts) ==
  IF ts = <<>> THEN st ELSE AddAll(AddOne(st, Head(ts)), Tail(ts))

add_test(e, t) ==
  /\ pc = "idle"
  /\ idCounter < MaxTests
  /\ LET st == AddOne([list |-> tests[e], counter |-> idCounter], t)
     IN  /\ tests' = [tests EXCEPT ![e] = st.list]
         /\ idCounter' = st.counter
  /\ UNCHANGED <<currentTest, records, pc, run, outcome, out, log>>

\* MTEnv::add_test(initializer_list)
add_test_list(e, ts) ==
  /\ pc = "idle"
  /\ idCounter + Len(ts) <= MaxTests
  /\ LET st == AddAll([list |-> tests[e], counter |-> idCounter], ts)
     IN  /\ tests' = [tests EXCEPT ![e] = st.list]
         /\ idCounter' = st.counter
  /\ UNCHANGED <<currentTest, records, pc, run, outcome, out, log>>

(***************************************************************************)
(* The aggregate percentage of _report:                                    *)
(*   int percentage = std::ceil((passedCounter / testCounter) * 100);      *)
(* with float counters.  Both operations are IEEE-754 binary32 with        *)
(* round-to-nearest-even; a float is held as [m, e], standing for          *)
(* m * 2^(-e) with 2^23 <= m < 2^24, or m = 0.                             *)
(***************************************************************************)
FloatMantissaBits ==
  24

RECURSIVE Pow2(_)
Pow2(k) ==
  IF k = 0 THEN 1 ELSE 2 * Pow2(k - 1)

\* a / b rounded to the nearest integer, ties to even
RoundNearestEven(a, b) ==
  LET q == a \div b
      rem == a % b
  IN  IF 2 * rem < b THEN q
      ELSE IF 2 * rem > b THEN q + 1
      ELSE IF q % 2 = 0 THEN q ELSE q + 1

\* the least k >= from with a < hi * 2^k
RECURSIVE ShiftDown(_, _, _)
ShiftDown(a, hi, from) ==
  IF a \div Pow2(from) < hi THEN from ELSE ShiftDown(a, hi, from + 1)

\* the least k with a * 2^k >= lo * b
RECURSIVE ShiftUp(_, _, _, _)
ShiftUp(a, b, lo, from) ==
  IF a * Pow2(from) >= lo * b THEN from ELSE ShiftUp(a, b, lo, from + 1)

\* float(p) / float(n) for small counters 0 < p <= n
FloatDiv(p, n) ==
  LET lo == Pow2(FloatMantissaBits - 1)
      e == ShiftUp(p, n, lo, 0)
      m == RoundNearestEven(p * Pow2(e), n)
  IN  IF m = 2 * lo THEN [m |-> lo, e |-> e - 1] ELSE [m |-> m, e |-> e]

\* x * 100 in float, as [m, e, k]: the value m * 2^k * 2^(-e)
FloatTimes100(x) ==
  LET hi == Pow2(FloatMantissaBits)
      a == 100 * x.m
      k == ShiftDown(a, hi, 0)
      m == RoundNearestEven(a, Pow2(k))
  IN  [m |-> m, k |-> k, e |-> x.e]

\* std::ceil of m * 2^k / 2^e, converted to int
CeilToInt(y) ==
  LET a == y.m * Pow2(y.k)
      b == Pow2(y.e)
  IN  IF a % b = 0 THEN a \div b ELSE (a \div b) + 1

INT_MIN ==
  (0 - 2147483647) - 1

\* 0.0f / 0.0f is NaN, std::ceil(NaN) is NaN, and the conversion of NaN to
\* int is undefined: cvttss2si gives INT_MIN, other targets give 0
UndefinedInts ==
  {INT_MIN, 0}

\* the values "percentage" can take for the two counters
Percentages(passedCounter, testCounter) ==
  IF testCounter = 0 THEN UndefinedInts
  ELSE IF passedCounter = 0 THEN {0}
  ELSE {CeilToInt(FloatTimes100(FloatDiv(passedCounter, testCounter)))}

(***************************************************************************)
(* Reporting.  What _report writes is kept as a sequence of chunks         *)
(* [kind, text]; the fields key and idx are history: the record-store key  *)
(* and the position of the record the chunk was written for.               *)
(***************************************************************************)
NoProvided ==
  <<"n", "o", " ", "p", "r", "o", "v", "i", "d", "e", "d">>

\* variant: the printable flag is not consulted
RecordOut_ignoresPrintable(rec) ==
  IF ~rec.pass
  THEN <<[kind |-> "CASE",
          text |-> IF rec.reason = <<>> THEN NoProvided ELSE rec.reason[1]]>>
  ELSE <<>>

\* operator<<(std::ostream&, const Record&): the chunks written for rec
RecordOut(rec) ==
  IF ~rec.pass /\ rec.printable
  THEN <<[kind |-> "CASE",
          text |-> IF rec.reason = <<>> THEN NoProvided ELSE rec.reason[1]]>>
  ELSE <<>>

\* the inner for_each of _report over the records of one key, from idx on:
\* [lines, failedRecord]
RECURSIVE ReportRecords(_, _, _, _)
ReportRecords(recs, key, idx, acc) ==
  IF idx > Len(recs) THEN acc
  ELSE LET rec == recs[idx]
           written == [c \in 1..Len(RecordOut(rec)) |->
                         [kind |-> RecordOut(rec)[c].kind, key |-> key,
                          idx |-> idx, text |-> RecordOut(rec)[c].text]]
       IN  ReportRecords(recs, key, idx + 1,
             [lines |-> acc.lines \o written,
              failedRecord |-> IF rec.pass = FALSE THEN acc.failedRecord + 1
                               ELSE acc.failedRecord])

\* one step of the outer for_each of _report, for the entry with key k of an
\* environment with test list ts; std::vector::at throws std::out_of_range
ReportEntry(ts, recs, k, acc) ==
  IF k >= Len(ts)
  THEN [lines |-> acc.lines, passedCounter |-> acc.passedCounter,
        testCounter |-> acc.testCounter + 1, threw |-> TRUE]
  ELSE LET test == ts[k + 1]
           inner == ReportRecords(recs[k], k, 1,
                      [lines |-> <<[kind |-> "RUNNING", key |-> k, idx |-> 0,
                                    text |-> test.name]>>,
                       failedRecord |-> 0])
       IN  IF inner.failedRecord = 0
           THEN [lines |-> acc.lines \o inner.lines \o
                           <<[kind |-> "PASSED", key |-> k, idx |-> 0,
                              text |-> <<>>]>>,
                 passedCounter |-> acc.passedCounter + 1,
                 testCounter |-> acc.testCounter + 1, threw |-> FALSE]
           ELSE [lines |-> acc.lines \o inner.lines \o
                           <<[kind |-> "FEEDBACK", key |-> k, idx |-> 0,
                              text |-> test.feedback]>>,
                 passedCounter |-> acc.passedCounter,
                 testCounter |-> acc.testCounter + 1, threw |-> FALSE]

\* variant: the entries are visited from the largest key down
RECURSIVE ReportLoop_descendingKeys(_, _, _, _)
ReportLoop_descendingKeys(ts, recs, keys, acc) ==
  IF keys = {} \/ acc.threw THEN acc
  ELSE LET k == CHOOSE x \in keys : \A y \in keys : x >= y
       IN  ReportLoop_descendingKeys(ts, recs, keys \ {k},
                                     ReportEntry(ts, recs, k, acc))

\* the outer for_each: std::map iterates its keys in ascending order
RECURSIVE ReportLoop(_, _, _, _)
ReportLoop(ts, recs, keys, acc) ==
  IF keys = {} \/ acc.threw THEN acc
  ELSE LET k == CHOOSE x \in keys : \A y \in keys : x <= y
       IN  ReportLoop(ts, recs, keys \ {k}, ReportEntry(ts, recs, k, acc))

NoOutput ==
  [lines |-> <<>>, passedCounter |-> 0, testCounter |-> 0, threw |-> FALSE,
   percentage |-> <<>>]

\* MTEnv::_report: the outputs it can produce for environment e.  When at()
\* throws, the aggregate line is not reached.
_report(e) ==
  LET loop == ReportLoop(tests[e], records[e], DOMAIN records[e],
                [lines |-> <<>>, passedCounter |-> 0, testCounter |-> 0,
                 threw |-> FALSE])
  IN  IF loop.threw
      THEN {[lines |-> loop.lines, passedCounter |-> loop.passedCounter,
             testCounter |-> loop.testCounter, threw |-> TRUE,
             percentage |-> <<>>]}
      ELSE {[lines |-> loop.lines \o
                       <<[kind |-> "PERCENT", key |-> 0 - 1, idx |-> 0,
                          text |-> IntText(v)]>>,
             passedCounter |-> loop.passedCounter,
             testCounter |-> loop.testCounter, threw |-> FALSE,
             percentage |-> <<v>>] :
            v \in Percentages(loop.passedCounter, loop.testCounter)}

(***************************************************************************)
(* MTEnv::run_all.                                                         *)
(***************************************************************************)
\* no run_all call is in progress
NoRun ==
  [env |-> 0, i |-> 0, report |-> FALSE]

\* the call: std::for_each starts at _tests.begin()
run_all(e, report, verbose) ==
  /\ pc = "idle"
  /\ pc' = "loop"
  /\ run' = [env |-> e, i |-> 1, report |-> report]
  /\ outcome' = "running"
  /\ log' = <<>>
  /\ out' = NoOutput
  /\ UNCHANGED <<idCounter, tests, currentTest, records>>

\* variant: _currentTest is set only while it is null
InvokeTest_keepCurrent ==
  /\ pc = "loop"
  /\ run.i <= Len(tests[run.env])
  /\ currentTest' = [currentTest EXCEPT ![run.env] =
                       IF @ = <<>> THEN <<tests[run.env][run.i]>> ELSE @]
  /\ pc' = "body"
  /\ log' = Append(log, [ev |-> "call", i |-> run.i])
  /\ UNCHANGED <<idCounter, tests, records, run, outcome, out>>

\* the lambda up to the call it.f(*this): release, make_unique<MTTest>(it)
InvokeTest ==
  /\ pc = "loop"
  /\ run.i <= Len(tests[run.env])
  /\ currentTest' = [currentTest EXCEPT ![run.env] = <<tests[run.env][run.i]>>]
  /\ pc' = "body"
  /\ log' = Append(log, [ev |-> "call", i |-> run.i])
  /\ UNCHANGED <<idCounter, tests, records, run, outcome, out>>

\* variant: the iteration steps over the following element
TestReturns_skipNext ==
  /\ pc = "body"
  /\ pc' = "loop"
  /\ run' = [run EXCEPT !.i = @ + 2]
  /\ log' = Append(log, [ev |-> "return", i |-> run.i])
  /\ UNCHANGED <<idCounter, tests, currentTest, records, outcome, out>>

\* it.f returns: for_each moves to the next element
TestReturns ==
  /\ pc = "body"
  /\ pc' = "loop"
  /\ run' = [run EXCEPT !.i = @ + 1]
  /\ log' = Append(log, [ev |-> "return", i |-> run.i])
  /\ UNCHANGED <<idCounter, tests, currentTest, records, outcome, out>>

\* variant: run_all catches the exception and goes on with the next test
TestThrows_swallowed ==
  /\ pc = "body"
  /\ pc' = "loop"
  /\ run' = [run EXCEPT !.i = @ + 1]
  /\ log' = Append(log, [ev |-> "throw", i |-> run.i])
  /\ UNCHANGED <<idCounter, tests, currentTest, records, outcome, out>>

\* an exception escapes it.f: nothing in run_all catches it
TestThrows ==
  /\ pc = "body"
  /\ pc' = "idle"
  /\ outcome' = "test_threw"
  /\ log' = Append(log, [ev |-> "throw", i |-> run.i])
  /\ run' = NoRun
  /\ UNCHANGED <<idCounter, tests, currentTest, records, out>>

\* for_each is at _tests.end(): if (report) _report(verbose);
Finish ==
  /\ pc = "loop"
  /\ run.i > Len(tests[run.env])
  /\ pc' = "idle"
  /\ IF run.report
     THEN \E r \in _report(run.env) :
            /\ out' = r
            /\ outcome' = IF r.threw THEN "report_threw" ELSE "returned"
     ELSE /\ out' = out
          /\ outcome' = "returned"
  /\ run' = NoRun
  /\ UNCHANGED <<idCounter, tests, currentTest, records, log>>

(***************************************************************************)
(* GradingEnv (src/grading.hpp).  A record carries, besides the fields of  *)
(* the struct, the history field by: the zero-based position in _tests of  *)
(* the test whose function made the helper call.                           *)
(***************************************************************************)
\* the number of values of uint8_t
Uint8Modulus ==
  256

\* names of the tests that get registered; names may repeat
GETestNames ==
  {<<"A">>, <<"B">>}

\* the msg argument of expect_eq
GEMessages ==
  {<<"m">>}

Passed ==
  <<"P", "a", "s", "s", "e", "d", "!">>

\* the feedback text expect_eq builds when l != r
GEFeedback(l, r, msg) ==
  <<" ", " ", "E", "x", "p", "e", "c", "t", "e", "d", ":", " ">> \o IntText(r)
    \o Endl \o <<" ", " ", "G", "o", "t", ":", " ">> \o IntText(l)
    \o Endl \o <<" ", " ", "M", "e", "s", "s", "a", "g", "e", ":", " ">> \o msg

\* the record GradingEnv::expect_eq<int>(l, r, msg) builds
GE_expect_eq_record(l, r, msg) ==
  [name |-> geCurrentTestName,
   pass |-> (l = r),
   feedback |-> IF l = r THEN Passed ELSE GEFeedback(l, r, msg)]

\* GradingEnv::_insertRecord: the map after inserting rec under cur
GE_insertRecord(recs, cur, rec) ==
  IF cur \in DOMAIN recs
  THEN [recs EXCEPT ![cur] = Append(@, rec)]
  ELSE (cur :> <<rec>>) @@ recs

RECURSIVE GESumLen(_, _)
GESumLen(recs, keys) ==
  IF keys = {} THEN 0
  ELSE LET k == CHOOSE x \in keys : TRUE
       IN  Len(recs[k]) + GESumLen(recs, keys \ {k})

\* GradingEnv::add_test(std::pair)
GE_add_test(name) ==
  /\ gePc = "idle"
  /\ Len(geTests) < GEMaxTests
  /\ geTests' = Append(geTests, [name |-> name])
  /\ UNCHANGED <<geCurrentTest, geCurrentTestName, geRecords, gePc, geRun,
                 geRuns, geOut>>

\* GradingEnv::add_test(std::initializer_list)
GE_add_test_list(names) ==
  /\ gePc = "idle"
  /\ Len(geTests) + Len(names) <= GEMaxTests
  /\ geTests' = geTests \o [i \in 1..Len(names) |-> [name |-> names[i]]]
  /\ UNCHANGED <<geCurrentTest, geCurrentTestName, geRecords, gePc, geRun,
                 geRuns, geOut>>

\* GradingEnv::expect_eq, called by the running test function
GE_expect_eq(l, r, msg) ==
  /\ gePc = "body"
  /\ GESumLen(geRecords, DOMAIN geRecords) < GEMaxRecords
  /\ geRecords' =
       GE_insertRecord(geRecords, geCurrentTest,
         [name |-> GE_expect_eq_record(l, r, msg).name,
          pass |-> GE_expect_eq_record(l, r, msg).pass,
          feedback |-> GE_expect_eq_record(l, r, msg).feedback,
          by |-> geRun.i - 1])
  /\ UNCHANGED <<geTests, geCurrentTest, geCurrentTestName, gePc, geRun,
                 geRuns, geOut>>

\* GradingEnv::_nextTest: the value of _currentTest after the increment
_nextTest(cur) ==
  (cur + 1) % Uint8Modulus

\* operator<<(std::ostream&, const Record&) of src/grading.hpp
GERecordOut(rec) ==
  IF ~rec.pass
  THEN <<"[">> \o rec.name \o <<" ", "F", "A", "I", "L", "E", "D", "]">>
         \o Endl \o rec.feedback \o Endl
  ELSE <<"[">> \o rec.name \o <<" ", "P", "A", "S", "S", "E", "D", "]">>
         \o Endl

\* the inner for_each of GradingEnv::_report: [lines, passed, tests]
RECURSIVE GEReportRecords(_, _, _)
GEReportRecords(recs, idx, acc) ==
  IF idx > Len(recs) THEN acc
  ELSE GEReportRecords(recs, idx + 1,
         [lines |-> Append(acc.lines, GERecordOut(recs[idx]) \o Endl),
          passed |-> IF recs[idx].pass = TRUE THEN acc.passed + 1
                     ELSE acc.passed,
          tests |-> acc.tests + 1])

\* the outer for_each: std::map iterates its keys in ascending order
RECURSIVE GEReportLoop(_, _, _)
GEReportLoop(recs, keys, acc) ==
  IF keys = {} THEN acc
  ELSE LET k == CHOOSE x \in keys : \A y \in keys : x <= y
       IN  GEReportLoop(recs, keys \ {k}, GEReportRecords(recs[k], 1, acc))

GENoOutput ==
  [lines |-> <<>>, percentage |-> <<>>]

\* GradingEnv::_report: the outputs it can produce
GE_report ==
  LET loop == GEReportLoop(geRecords, DOMAIN geRecords,
                [lines |-> <<>>, passed |-> 0, tests |-> 0])
  IN  {[lines |-> loop.lines, percentage |-> <<v>>] :
         v \in Percentages(loop.passed, loop.tests)}

GENoRun ==
  [i |-> 0, report |-> FALSE]

\* GradingEnv::run_all is called
GE_run_all(report) ==
  /\ gePc = "idle"
  /\ geRuns < GEMaxRuns
  /\ gePc' = "loop"
  /\ geRun' = [i |-> 1, report |-> report]
  /\ geRuns' = geRuns + 1
  /\ geOut' = GENoOutput
  /\ UNCHANGED <<geTests, geCurrentTest, geCurrentTestName, geRecords>>

\* the lambda of run_all is entered for the next test and calls it.f(*this)
GEInvokeTest ==
  /\ gePc = "loop"
  /\ geRun.i <= Len(geTests)
  /\ geCurrentTestName' = geTests[geRun.i].name
  /\ gePc' = "body"
  /\ UNCHANGED <<geTests, geCurrentTest, geRecords, geRun, geRuns, geOut>>

\* it.f returns: _nextTest() and on to the next test
GETestReturns ==
  /\ gePc = "body"
  /\ geCurrentTest' = _nextTest(geCurrentTest)
  /\ geRun' = [geRun EXCEPT !.i = @ + 1]
  /\ gePc' = "loop"
  /\ UNCHANGED <<geTests, geCurrentTestName, geRecords, geRuns, geOut>>

\* it.f throws: the exception leaves run_all, _nextTest is not reached
GETestThrows ==
  /\ gePc = "body"
  /\ gePc' = "idle"
  /\ geRun' = GENoRun
  /\ UNCHANGED <<geTests, geCurrentTest, geCurrentTestName, geRecords, geRuns,
                 geOut>>

\* the for_each is over: report if asked and return
GEFinish ==
  /\ gePc = "loop"
  /\ geRun.i > Len(geTests)
  /\ gePc' = "idle"
  /\ geRun' = GENoRun
  /\ IF geRun.report
     THEN \E o \in GE_report : geOut' = o
     ELSE geOut' = geOut
  /\ UNCHANGED <<geTests, geCurrentTest, geCurrentTestName, geRecords, geRuns>>

\* GradingEnv::GradingEnv
GEInit ==
  /\ geTests = <<>>
  /\ geCurrentTest = 0
  /\ geCurrentTestName = <<>>
  /\ geRecords = [k \in {} |-> <<>>]
  /\ gePc = "idle"
  /\ geRun = GENoRun
  /\ geRuns = 0
  /\ geOut = GENoOutput

(***************************************************************************)
(* The specification of a program with NumEnvs MTEnv objects; the          *)
(* variables of GradingEnv keep their initial values in it.                *)
(***************************************************************************)
Init ==
  /\ idCounter = 0
  /\ tests = [e \in Envs |-> <<>>]
  /\ currentTest = [e \in Envs |-> <<>>]
  /\ records = [e \in Envs |-> [k \in {} |-> <<>>]]
  /\ pc = "idle"
  /\ run = NoRun
  /\ outcome = "none"
  /\ out = NoOutput
  /\ log = <<>>
  /\ GEInit

\* The code never inspects a name or a feedback text and its environments
\* are interchangeable objects, so the inputs are drawn up to renaming:
\* environments are numbered in the order of their first registration and
\* the first test of the process is given the first input.
UpToRenaming(e, t) ==
  /\ \A d \in 1..(e - 1) : tests[d] # <<>>
  /\ idCounter = 0 => t = FirstInput

Next ==
  \/ \E e \in Envs, t \in TestInputs :
       UpToRenaming(e, t) /\ add_test(e, t) /\ UNCHANGED geVars
  \/ \E e \in Envs, t1 \in TestInputs, t2 \in TestInputs :
       UpToRenaming(e, t1) /\ add_test_list(e, <<t1, t2>>) /\ UNCHANGED geVars
  \/ \E e \in Envs, report \in BOOLEAN, verbose \in BOOLEAN :
       run_all(e, report, verbose) /\ UNCHANGED geVars
  \/ InvokeTest /\ UNCHANGED geVars
  \/ \E e \in Envs, p \in OperandPairs, printable \in BOOLEAN :
       expect_eq(e, p[1], p[2], printable) /\ UNCHANGED geVars
  \/ \E e \in Envs, p \in OperandPairs, printable \in BOOLEAN :
       expect_neq(e, p[1], p[2], printable) /\ UNCHANGED geVars
  \/ \E e \in Envs, val \in BOOLEAN, printable \in BOOLEAN :
       expect_true(e, val, printable) /\ UNCHANGED geVars
  \/ \E e \in Envs, val \in BOOLEAN, printable \in BOOLEAN :
       expect_false(e, val, printable) /\ UNCHANGED geVars
  \/ TestReturns /\ UNCHANGED geVars
  \/ TestThrows /\ UNCHANGED geVars
  \/ Finish /\ UNCHANGED geVars

Spec ==
  Init /\ [][Next]_<<vars, geVars>>

(***************************************************************************)
(* The specification of a program with one GradingEnv object; the          *)
(* variables of MTEnv keep their initial values in it.                     *)
(***************************************************************************)
NextGE ==
  \/ \E name \in GETestNames :
       GE_add_test(name) /\ UNCHANGED vars
  \/ \E n1 \in GETestNames, n2 \in GETestNames :
       GE_add_test_list(<<n1, n2>>) /\ UNCHANGED vars
  \/ \E report \in BOOLEAN :
       GE_run_all(report) /\ UNCHANGED vars
  \/ GEInvokeTest /\ UNCHANGED vars
  \/ \E p \in OperandPairs, msg \in GEMessages :
       GE_expect_eq(p[1], p[2], msg) /\ UNCHANGED vars
  \/ GETestReturns /\ UNCHANGED vars
  \/ GETestThrows /\ UNCHANGED vars
  \/ GEFinish /\ UNCHANGED vars

SpecGE ==
  Init /\ [][NextGE]_<<vars, geVars>>

(***************************************************************************)
(* Properties.                                                             *)
(***************************************************************************)
\* a step in which run_all leaves its loop normally (and reports, if asked)
FinishStep ==
  pc = "loop" /\ pc' = "idle"

\* the calls and returns of the first n tests, one after the other
RECURSIVE Pattern(_)
Pattern(n) ==
  IF n = 0 THEN <<>>
  ELSE Pattern(n - 1) \o <<[ev |-> "call", i |-> n], [ev |-> "return", i |-> n]>>

\* C1: one call of run_all invokes the registered tests' functions in
\* registration order, each exactly once, and starts a function only after
\* the previous one has returned: while the loop runs, the history of the
\* call is call 1, return 1, ..., up to the position of the loop, and when
\* the loop is left it covers every registered test.
C1_RunAllInOrderOnceEach ==
  /\ [](pc = "loop" => log = Pattern(run.i - 1))
  /\ [](pc = "body" => /\ run.i <= Len(tests[run.env])
                       /\ log = Pattern(run.i - 1) \o
                                <<[ev |-> "call", i |-> run.i]>>)
  /\ [][FinishStep => log' = Pattern(Len(tests[run.env]))]_vars

\* C1 witness: a run_all over three tests, two of them with the same name
\* and two of them registered as a batch or singly, has returned
C1_Witness ==
  /\ pc = "idle"
  /\ outcome = "returned"
  /\ log = Pattern(3)
  /\ \E e \in Envs :
       /\ Len(tests[e]) = 3
       /\ tests[e][1].name = tests[e][2].name

\* C2: every record of the record store is filed under the id of the test
\* whose function was executing when the helper was called
C2_RecordsFiledUnderExecutingTest ==
  \A e \in Envs :
    \A k \in DOMAIN records[e] :
      \A j \in 1..Len(records[e][k]) :
        records[e][k][j].by = k

\* C2 witness: a later run_all is executing the first test of an
\* environment whose first and second tests both have records
C2_Witness ==
  /\ pc = "body"
  /\ run.i = 1
  /\ Len(tests[run.env]) >= 2
  /\ tests[run.env][1].id \in DOMAIN records[run.env]
  /\ tests[run.env][2].id \in DOMAIN records[run.env]

\* the registered tests of e, by position, without a failing record
PassedTests(e) ==
  {i \in 1..Len(tests[e]) :
     LET id == tests[e][i].id
     IN  \/ id \notin DOMAIN records[e]
         \/ \A j \in 1..Len(records[e][id]) : records[e][id][j].pass}

\* ceil(a / b) in exact integer arithmetic, b > 0
ExactCeil(a, b) ==
  IF a % b = 0 THEN a \div b ELSE (a \div b) + 1

\* C3: the percentage printed by the report equals ceil(100 * P / N), with
\* N the number of registered tests and P the number of registered tests
\* without a failing record, a test without any assertion counting as
\* passed and being included in N (stated for reports that found at least
\* one record, so that the quotient the code forms is defined)
C3_PercentageOverRegisteredTests ==
  [][(FinishStep /\ out'.percentage # <<>> /\ out'.testCounter > 0)
       => out'.percentage[1] =
            ExactCeil(100 * Cardinality(PassedTests(run.env)),
                      Len(tests[run.env]))]_vars

\* C4: a report never divides by a zero test counter: whenever the
\* aggregate line is printed, the counter it divided by was not zero or the
\* computation gives one defined value
C4_NoDivisionByZero ==
  out.percentage # <<>> =>
    \/ out.testCounter # 0
    \/ Cardinality(Percentages(out.passedCounter, out.testCounter)) = 1

\* the positions of the chunks of kind kd written for key k
ChunksOf(o, kd, k) ==
  {c \in 1..Len(o.lines) : o.lines[c].kind = kd /\ o.lines[c].key = k}

\* the keys for which the report printed its closing banner
BannerKeys(o) ==
  {o.lines[c].key : c \in {x \in 1..Len(o.lines) :
                             o.lines[x].kind \in {"PASSED", "FEEDBACK"}}}

\* C5: a failing record with printable = false is not echoed by the report,
\* and its test neither gets the PASSED banner nor is counted in the passed
\* total of the aggregate
C5_NonPrintableFailureCountsButIsNotShown ==
  [][(FinishStep /\ run.report) =>
       LET recs == records[run.env]
       IN  /\ \A k \in DOMAIN recs :
                \A j \in 1..Len(recs[k]) :
                  (~recs[k][j].pass /\ ~recs[k][j].printable) =>
                    /\ \A c \in ChunksOf(out', "CASE", k) : out'.lines[c].idx # j
                    /\ ChunksOf(out', "PASSED", k) = {}
           /\ out'.passedCounter =
                Cardinality({k \in BannerKeys(out') :
                               \A j \in 1..Len(recs[k]) : recs[k][j].pass})]_vars

\* C5 witness: a report has closed a test with its feedback without having
\* echoed any of its records, and has printed the aggregate line
C5_Witness ==
  /\ pc = "idle"
  /\ out.percentage # <<>>
  /\ \E c \in 1..Len(out.lines) :
       /\ out.lines[c].kind = "FEEDBACK"
       /\ ChunksOf(out, "CASE", out.lines[c].key) = {}

\* the step appends exactly one record, at the end of the list under key k
\* of environment e, and changes no other list
AppendsOneRecord(e, k) ==
  /\ k \in DOMAIN records'[e]
  /\ DOMAIN records'[e] = DOMAIN records[e] \cup {k}
  /\ LET old == IF k \in DOMAIN records[e] THEN records[e][k] ELSE <<>>
     IN  /\ Len(records'[e][k]) = Len(old) + 1
         /\ SubSeq(records'[e][k], 1, Len(old)) = old
  /\ \A k2 \in DOMAIN records[e] \ {k} : records'[e][k2] = records[e][k2]
  /\ \A d \in Envs \ {e} : records'[d] = records[d]

\* the record at the end of the list under key k of environment e after
\* the step
LastRecord(e, k) ==
  records'[e][k][Len(records'[e][k])]

\* C6: one call of expect_eq(l, r) inside a running test appends exactly one
\* record; it passes when l = r, and when l # r it fails with a reason text
\* in which both l and r occur
C6_ExpectEqRecord ==
  [][\A e \in Envs, p \in OperandPairs, printable \in BOOLEAN :
       expect_eq(e, p[1], p[2], printable) =>
         \E k \in DOMAIN records'[e] :
           /\ AppendsOneRecord(e, k)
           /\ LastRecord(e, k).printable = printable
           /\ p[1] = p[2] => LastRecord(e, k).pass = TRUE
           /\ p[1] # p[2] =>
                /\ LastRecord(e, k).pass = FALSE
                /\ LastRecord(e, k).reason # <<>>
                /\ Contains(LastRecord(e, k).reason[1], IntText(p[1]))
                /\ Contains(LastRecord(e, k).reason[1], IntText(p[2]))]_vars

\* C6 witness: expect_eq(7, 42) has added its failing record behind an
\* earlier passing record of the same test
C6_Witness ==
  \E e \in Envs :
    \E k \in DOMAIN records[e] :
      /\ Len(records[e][k]) = 2
      /\ records[e][k][1].pass
      /\ records[e][k][2].reason =
           << Red \o <<"7", " ", "!", "=", " ", "4", "2">> \o Reset \o Endl >>

\* C7: expect_neq is the complement of expect_eq: the record appended by
\* expect_neq(l, r) passes exactly when the record of expect_eq(l, r) fails,
\* and the other way round
C7_ExpectNeqComplementsExpectEq ==
  [][\A e \in Envs, p \in OperandPairs, printable \in BOOLEAN :
       /\ expect_neq(e, p[1], p[2], printable) =>
            \E k \in DOMAIN records'[e] :
              /\ AppendsOneRecord(e, k)
              /\ LastRecord(e, k).pass =
                   ~expect_eq_record(p[1], p[2], printable).pass
       /\ expect_eq(e, p[1], p[2], printable) =>
            \E k \in DOMAIN records'[e] :
              /\ AppendsOneRecord(e, k)
              /\ LastRecord(e, k).pass =
                   ~expect_neq_record(p[1], p[2], printable).pass]_vars

\* C7 witness: one test holds the failing record of expect_neq(7, 7) and
\* the failing record of expect_eq(7, 42)
C7_Witness ==
  \E e \in Envs :
    \E k \in DOMAIN records[e] :
      /\ Len(records[e][k]) = 2
      /\ records[e][k][1].reason =
           << Red \o <<"7", " ", "=", "=", " ", "7">> \o Reset \o Endl >>
      /\ records[e][k][2].reason =
           << Red \o <<"7", " ", "!", "=", " ", "4", "2">> \o Reset \o Endl >>

\* the step files a failing record in environment e
AppendsFailingRecord(e) ==
  \E k \in DOMAIN records'[e] :
    /\ AppendsOneRecord(e, k)
    /\ LastRecord(e, k).pass = FALSE

\* C8: a failing assertion never aborts the run: the helper records the
\* failure and returns into the test function, which goes on, and the only
\* way a run_all call is cut short is an exception of the test function
\* itself; a run with failing records still covers every registered test
C8_FailingAssertionDoesNotAbort ==
  /\ [][\A e \in Envs :
          AppendsFailingRecord(e) =>
            /\ pc' = "body"
            /\ run' = run
            /\ outcome' = "running"
            /\ log' = log]_vars
  /\ [][(FinishStep /\ \E k \in DOMAIN records[run.env] :
                         \E j \in 1..Len(records[run.env][k]) :
                           ~records[run.env][k][j].pass)
          => /\ log' = Pattern(Len(tests[run.env]))
             /\ outcome' \in {"returned", "report_threw"}]_vars

\* C8 witness: the first test of an environment has a failing record, and
\* the second test is running and has filed a record after it
C8_Witness ==
  /\ pc = "body"
  /\ run.i = 2
  /\ LET first == tests[run.env][1].id
         second == tests[run.env][2].id
     IN  /\ first \in DOMAIN records[run.env]
         /\ ~records[run.env][first][1].pass
         /\ second \in DOMAIN records[run.env]

\* C9: when an exception escapes a test function, run_all ends there: the
\* exception reaches the caller, no later test is invoked, no report is
\* written, and the record store is left as it was at the fault
C9_EscapingExceptionAbortsRun ==
  /\ [](\A n \in 1..Len(log) :
          log[n].ev = "throw" =>
            /\ n = Len(log)
            /\ pc = "idle"
            /\ outcome = "test_threw"
            /\ out = NoOutput)
  /\ [][(pc = "body" /\ pc' # "body") =>
          \/ log' = Append(log, [ev |-> "return", i |-> run.i])
          \/ /\ log' = Append(log, [ev |-> "throw", i |-> run.i])
             /\ records' = records
             /\ tests' = tests]_vars

\* C9 witness: the first of two tests has filed a record and then thrown
C9_Witness ==
  /\ outcome = "test_threw"
  /\ log = <<[ev |-> "call", i |-> 1], [ev |-> "throw", i |-> 1]>>
  /\ \E e \in Envs :
       /\ Len(tests[e]) >= 2
       /\ currentTest[e] = <<tests[e][1]>>
       /\ tests[e][1].id \in DOMAIN records[e]

\* the registered tests of the process, as (environment, position)
Registered ==
  {<<e, i>> \in Envs \X (1..MaxTests + 1) : i <= Len(tests[e])}

\* C10: test ids are unique and stable: add_test gives the new test the
\* value of a counter that only grows, no two registered tests of the
\* process share an id, and no step changes a registered test
C10_IdsUniqueAndStable ==
  /\ [](\A a \in Registered, b \in Registered :
          a # b => tests[a[1]][a[2]].id # tests[b[1]][b[2]].id)
  /\ [](\A a \in Registered : tests[a[1]][a[2]].id \in 0..(idCounter - 1))
  /\ [][/\ idCounter' >= idCounter
        /\ \A e \in Envs :
             /\ Len(tests'[e]) >= Len(tests[e])
             /\ \A i \in 1..Len(tests[e]) : tests'[e][i] = tests[e][i]
             /\ \A i \in (Len(tests[e]) + 1)..Len(tests'[e]) :
                  /\ tests'[e][i].id >= idCounter
                  /\ tests'[e][i].id < idCounter'
                  /\ i > 1 => tests'[e][i].id > tests'[e][i - 1].id]_vars

\* C10 witness: two environments hold tests, one of them two, and a
\* run_all has returned since
C10_Witness ==
  /\ pc = "idle"
  /\ outcome = "returned"
  /\ log # <<>>
  /\ idCounter = 3
  /\ \A e \in {1, 2} : tests[e] # <<>>

(***************************************************************************)
(* The exception-assertion helpers.  src/example/main.cpp calls            *)
(* expect_except<K>, expect_no_except and expect_any_except; their         *)
(* definitions are not part of src/mtest.hpp, so they follow section 4.1   *)
(* of the specification.  A thunk is given by what running it does.        *)
(***************************************************************************)
ThunkOutcomes ==
  {"raisesK", "raisesOther", "returns"}

ExceptReason ==
  <<"e", "x", "c", "e", "p", "t">>

NoExceptReason ==
  <<"n", "o", " ", "e", "x", "c", "e", "p", "t">>

AnyExceptReason ==
  <<"a", "n", "y", " ", "e", "x", "c", "e", "p", "t">>

\* variant: expectFailure is not applied to a thunk that raises another kind
expect_except_record_otherKindNotInverted(thunk, expectFailure) ==
  expect(IF thunk = "raisesOther" THEN FALSE
         ELSE (thunk = "raisesK") # expectFailure,
         ExceptReason, TRUE)

\* expectThrows<K>(thunk, expectFailure): success iff the thunk raises kind
\* K, inverted by expectFailure
expect_except_record(thunk, expectFailure) ==
  expect((thunk = "raisesK") # expectFailure, ExceptReason, TRUE)

\* expectNoThrow(thunk, expectFailure)
expect_no_except_record(thunk, expectFailure) ==
  expect((thunk = "returns") # expectFailure, NoExceptReason, TRUE)

\* expectAnyThrow(thunk, expectFailure)
expect_any_except_record(thunk, expectFailure) ==
  expect((thunk # "returns") # expectFailure, AnyExceptReason, TRUE)

\* the helpers catch what the thunk raises, file the record and return
expect_except(e, thunk, expectFailure) ==
  Helper(e, expect_except_record(thunk, expectFailure))

expect_no_except(e, thunk, expectFailure) ==
  Helper(e, expect_no_except_record(thunk, expectFailure))

expect_any_except(e, thunk, expectFailure) ==
  Helper(e, expect_any_except_record(thunk, expectFailure))

\* test functions that use the exception-assertion helpers
NextExcept ==
  \/ \E e \in Envs, t \in TestInputs :
       UpToRenaming(e, t) /\ add_test(e, t) /\ UNCHANGED geVars
  \/ \E e \in Envs, t1 \in TestInputs, t2 \in TestInputs :
       UpToRenaming(e, t1) /\ add_test_list(e, <<t1, t2>>) /\ UNCHANGED geVars
  \/ \E e \in Envs, report \in BOOLEAN, verbose \in BOOLEAN :
       run_all(e, report, verbose) /\ UNCHANGED geVars
  \/ InvokeTest /\ UNCHANGED geVars
  \/ \E e \in Envs, thunk \in ThunkOutcomes, expectFailure \in BOOLEAN :
       expect_except(e, thunk, expectFailure) /\ UNCHANGED geVars
  \/ \E e \in Envs, thunk \in ThunkOutcomes, expectFailure \in BOOLEAN :
       expect_no_except(e, thunk, expectFailure) /\ UNCHANGED geVars
  \/ \E e \in Envs, thunk \in ThunkOutcomes, expectFailure \in BOOLEAN :
       expect_any_except(e, thunk, expectFailure) /\ UNCHANGED geVars
  \/ TestReturns /\ UNCHANGED geVars
  \/ TestThrows /\ UNCHANGED geVars
  \/ Finish /\ UNCHANGED geVars

SpecExcept ==
  Init /\ [][NextExcept]_<<vars, geVars>>

\* the truth table of section 8: <<helper, thunk, expectFailure, pass>>
ExceptTable ==
  {<<"except", "raisesK", FALSE, TRUE>>,
   <<"except", "raisesOther", FALSE, FALSE>>,
   <<"except", "returns", FALSE, FALSE>>,
   <<"except", "raisesK", TRUE, FALSE>>,
   <<"except", "raisesOther", TRUE, TRUE>>,
   <<"except", "returns", TRUE, TRUE>>,
   <<"no_except", "raisesK", FALSE, FALSE>>,
   <<"no_except", "raisesOther", FALSE, FALSE>>,
   <<"no_except", "returns", FALSE, TRUE>>,
   <<"no_except", "raisesK", TRUE, TRUE>>,
   <<"no_except", "raisesOther", TRUE, TRUE>>,
   <<"no_except", "returns", TRUE, FALSE>>,
   <<"any_except", "raisesK", FALSE, TRUE>>,
   <<"any_except", "raisesOther", FALSE, TRUE>>,
   <<"any_except", "returns", FALSE, FALSE>>,
   <<"any_except", "raisesK", TRUE, FALSE>>,
   <<"any_except", "raisesOther", TRUE, FALSE>>,
   <<"any_except", "returns", TRUE, TRUE>>}

\* the step is the call of the helper of row w on environment e
ExceptCall(e, w) ==
  \/ w[1] = "except" /\ expect_except(e, w[2], w[3])
  \/ w[1] = "no_except" /\ expect_no_except(e, w[2], w[3])
  \/ w[1] = "any_except" /\ expect_any_except(e, w[2], w[3])

\* C11: the exception-assertion helpers classify a thunk as the truth table
\* states, for thunks that raise kind K, raise another kind or raise
\* nothing, with and without expectFailure, and what the thunk raises never
\* leaves the helper: the test function goes on
C11_ExceptionHelpersTruthTable ==
  [][\A e \in Envs, w \in ExceptTable :
       ExceptCall(e, w) =>
         /\ \E k \in DOMAIN records'[e] :
              /\ AppendsOneRecord(e, k)
              /\ LastRecord(e, k).pass = w[4]
         /\ pc' = "body"
         /\ outcome' = "running"
         /\ log' = log]_vars

\* C11 witness: a running test holds the failing record of expect_except
\* and behind it the failing record of expect_any_except
C11_Witness ==
  /\ pc = "body"
  /\ \E k \in DOMAIN records[run.env] :
       /\ Len(records[run.env][k]) = 2
       /\ records[run.env][k][1].reason =
            << Red \o ExceptReason \o Reset \o Endl >>
       /\ records[run.env][k][2].reason =
            << Red \o AnyExceptReason \o Reset \o Endl >>

C12_ReportIsPureReadOfNonEmptyStore ==
  [][FinishStep /\ run.report =>
       \A e \in Envs :
         (e = run.env /\ DOMAIN records[e] # {}) =>
           /\ UNCHANGED <<tests, records, currentTest, idCounter>>
           /\ _report(e) = {out'}]_vars

\* C13: in a report every test that has records gets a running banner with
\* its own name, followed by PASSED if and only if every record of that test
\* passed, and otherwise by that same test's stored feedback
C13_BannerVerdictAndFeedbackOfTheSameTest ==
  [][(FinishStep /\ run.report) =>
       LET ts == tests[run.env]
           recs == records[run.env]
       IN  \A p \in 1..Len(ts) :
             ts[p].id \in DOMAIN recs =>
               LET k == ts[p].id
                   allPassed == \A j \in 1..Len(recs[k]) : recs[k][j].pass
               IN  \E r \in ChunksOf(out', "RUNNING", k) :
                     /\ out'.lines[r].text = ts[p].name
                     /\ IF allPassed
                        THEN /\ \E c \in ChunksOf(out', "PASSED", k) : r < c
                             /\ ChunksOf(out', "FEEDBACK", k) = {}
                        ELSE /\ \E c \in ChunksOf(out', "FEEDBACK", k) :
                                  /\ r < c
                                  /\ out'.lines[c].text = ts[p].feedback
                             /\ ChunksOf(out', "PASSED", k) = {}]_vars

\* the positions of the running banners in output o
RunningChunks(o) ==
  {c \in 1..Len(o.lines) : o.lines[c].kind = "RUNNING"}

\* C14: the report visits the tests in registration order: in every
\* environment the ids, which are the keys of the record store, ascend with
\* the position of registration, whatever add_test calls were made, and the
\* banners of a report follow each other as the tests owning the visited
\* record lists were registered
C14_ReportVisitsInRegistrationOrder ==
  [][/\ \A e \in Envs :
          \A p, q \in 1..Len(tests'[e]) :
            p < q => tests'[e][p].id < tests'[e][q].id
     /\ (FinishStep /\ run.report) =>
          LET ts == tests[run.env]
          IN  \A c1, c2 \in RunningChunks(out') :
                c1 < c2 =>
                  /\ out'.lines[c1].key < out'.lines[c2].key
                  /\ \E p, q \in 1..Len(ts) :
                       /\ p < q
                       /\ ts[p].id = out'.lines[c1].key
                       /\ ts[q].id = out'.lines[c2].key]_vars

\* C14 witness: a finished report has written the banners of two tests
C14_Witness ==
  /\ pc = "idle"
  /\ outcome = "returned"
  /\ Cardinality(RunningChunks(out)) >= 2

\* sequence s is a prefix of sequence t
IsPrefix(s, t) ==
  /\ Len(s) <= Len(t)
  /\ SubSeq(t, 1, Len(s)) = s

\* the step is a helper call: the only step inside a test function body
\* that stays in it
HelperStep ==
  pc = "body" /\ pc' = "body"

\* C15: the record store is insertion-only and order-preserving: a helper
\* call appends exactly one record at the end of the list of the current
\* test and changes nothing else, no other step changes the store, and
\* across every step each list is a prefix of the list after the step
C15_RecordStoreInsertionOnly ==
  [][/\ HelperStep =>
          /\ AppendsOneRecord(run.env, currentTest[run.env][1].id)
          /\ UNCHANGED <<idCounter, tests, currentTest, run, outcome, out, log>>
     /\ ~HelperStep => records' = records
     /\ \A e \in Envs :
          \A k \in DOMAIN records[e] :
            /\ k \in DOMAIN records'[e]
            /\ IsPrefix(records[e][k], records'[e][k])]_vars

\* the property of C15 for the record store of GradingEnv: a call of
\* expect_eq appends one record at the end of the list under _currentTest,
\* no other step changes the store, and every list stays a prefix of itself
GERecordStoreInsertionOnly ==
  [][/\ (gePc = "body" /\ gePc' = "body") =>
          /\ geCurrentTest \in DOMAIN geRecords'
          /\ DOMAIN geRecords' = DOMAIN geRecords \cup {geCurrentTest}
          /\ Len(geRecords'[geCurrentTest]) =
               (IF geCurrentTest \in DOMAIN geRecords
                THEN Len(geRecords[geCurrentTest]) ELSE 0) + 1
          /\ UNCHANGED <<geTests, geCurrentTest, geCurrentTestName, geRun,
                         geRuns, geOut>>
     /\ ~(gePc = "body" /\ gePc' = "body") => geRecords' = geRecords
     /\ \A k \in DOMAIN geRecords :
          /\ k \in DOMAIN geRecords'
          /\ IsPrefix(geRecords[k], geRecords'[k])]_geVars

\* C15 witness: inside a test function a second record has been appended
\* behind an earlier one of the same list
C15_Witness ==
  /\ pc = "body"
  /\ \E k \in DOMAIN records[run.env] : Len(records[run.env][k]) = 2

\* C16: in GradingEnv the records of the i-th registered test (zero-based)
\* are filed under key i, in the first run_all call and in every later one,
\* so no key holds records of two tests
C16_RecordsOfTestIUnderKeyI ==
  \A k \in DOMAIN geRecords :
    \A j \in 1..Len(geRecords[k]) : geRecords[k][j].by = k

\* C17: in every reachable state, with one or more MTEnv environments in the
\* process, each key k of an environment's record store is a valid position
\* of that environment's test list and the test at position k has id k, so
\* the lookup _tests.at(k) of the report neither throws nor returns another
\* test
C17_RecordKeysArePositions ==
  \A e \in Envs :
    \A k \in DOMAIN records[e] :
      /\ k < Len(tests[e])
      /\ tests[e][k + 1].id = k

====
